---- MODULE Spec2Model ----
(***************************************************************************)
(* A model of go-bundler-client (client.go): RpcClient, its eleven         *)
(* operations, its three constructors, and the wire-shape UserOperation    *)
(* with its conversion ToUserOperation.                                    *)
(*                                                                         *)
(* Every operation is one blocking call c.c.CallContext(ctx, &result,      *)
(* method, params...) followed by a few lines that turn (result, err)      *)
(* into the operation's return values.  Several callers may share one      *)
(* client, so an operation is modelled in two steps: the step that hands   *)
(* the request to the transport, and the step in which the transport call  *)
(* returns and the operation returns to its caller.                        *)
(*                                                                         *)
(* Text is a sequence of one-character strings, a byte is 0..255, and      *)
(* every value carries a tag t so that values of different Go types are    *)
(* different values.                                                       *)
(***************************************************************************)
EXTENDS Integers, Sequences, FiniteSets, TLC

\* ------------------------------------------------------------------ bounds

\* Operations invoked during one run.
MaxCalls == 2

\* Length of the longest mempool the server returns.
MaxMempool == 2

\* common.HashLength and common.AddressLength (go-ethereum).
HashLength == 32

AddressLength == 20

\* The callers sharing the client.
Callers == {"A", "B"}

\* ------------------------------------------------------------------ text and hex

Rep(c, n) == [i \in 1..n |-> c]

\* encoding/hex fromHexChar: the value of a hex digit of either case.
NibbleVal ==
  ("0" :> 0) @@ ("1" :> 1) @@ ("2" :> 2) @@ ("3" :> 3) @@ ("4" :> 4) @@ ("5" :> 5) @@
  ("6" :> 6) @@ ("7" :> 7) @@ ("8" :> 8) @@ ("9" :> 9) @@
  ("a" :> 10) @@ ("b" :> 11) @@ ("c" :> 12) @@ ("d" :> 13) @@ ("e" :> 14) @@ ("f" :> 15) @@
  ("A" :> 10) @@ ("B" :> 11) @@ ("C" :> 12) @@ ("D" :> 13) @@ ("E" :> 14) @@ ("F" :> 15)

HexChars == DOMAIN NibbleVal

IsHexChar(c) == c \in HexChars

\* common.has0xPrefix
Has0xPrefix(s) == Len(s) >= 2 /\ s[1] = "0" /\ (s[2] = "x" \/ s[2] = "X")

Tail2(s) == SubSeq(s, 3, Len(s))

\* common.Hex2Bytes: hex.DecodeString with the error dropped, which keeps the
\* bytes decoded before the first character that is not a hex digit.
Hex2Bytes(s) ==
  LET pairs == 1..(Len(s) \div 2)
      bad == {i \in pairs : ~IsHexChar(s[2 * i - 1]) \/ ~IsHexChar(s[2 * i])}
      n == IF bad = {} THEN Len(s) \div 2
           ELSE (CHOOSE i \in bad : \A j \in bad : i <= j) - 1
  IN  [i \in 1..n |-> 16 * NibbleVal[s[2 * i - 1]] + NibbleVal[s[2 * i]]]

\* common.FromHex
FromHex(s) ==
  LET s1 == IF Has0xPrefix(s) THEN Tail2(s) ELSE s
      s2 == IF Len(s1) % 2 = 1 THEN <<"0">> \o s1 ELSE s1
  IN  Hex2Bytes(s2)

\* common.BytesToHash / Hash.SetBytes: crop from the left, pad on the left.
BytesToHash(b) ==
  LET c == IF Len(b) > HashLength THEN SubSeq(b, Len(b) - HashLength + 1, Len(b)) ELSE b
  IN  [t |-> "hash", b |-> Rep(0, HashLength - Len(c)) \o c]

\* common.HexToHash, as called by BundlerSendBundleNow.
HexToHash(s) == BytesToHash(FromHex(s))

ZeroHash == [t |-> "hash", b |-> Rep(0, HashLength)]

ZeroAddress == [t |-> "address", b |-> Rep(0, AddressLength)]

\* The value of a run of hex digits, most significant first.
RECURSIVE HexNumber(_, _)
HexNumber(s, acc) ==
  IF Len(s) = 0 THEN acc ELSE HexNumber(Tail(s), 16 * acc + NibbleVal[s[1]])

AllHex(s) == \A i \in 1..Len(s) : IsHexChar(s[i])

\* ------------------------------------------------------------------ errors

NoErr == [t |-> "error", e |-> "nil"]

\* The errors rpc.Client.CallContext returns.
ErrNetwork == [t |-> "error", e |-> "transport: connection failed"]

ErrServer == [t |-> "error", e |-> "rpc error -32000"]

ErrDecode == [t |-> "error", e |-> "json: cannot unmarshal"]

ErrCtx == [t |-> "error", e |-> "context canceled"]

\* rpc.DialContext failing.
ErrDial == [t |-> "error", e |-> "dial failed"]

\* ------------------------------------------------------------------ JSON on the wire

JNull == [t |-> "json.null"]

JStr(s) == [t |-> "json.string", s |-> s]

\* An object of one of the third-party result shapes, opaque to the client.
\* shape "mistyped" is an object one of whose members has the wrong JSON type.
JObj(shape, id) == [t |-> "json.object", shape |-> shape, id |-> id]

JArr(a) == [t |-> "json.array", a |-> a]

\* A member that the object does not have.
JMissing == [t |-> "json.missing"]

\* A user operation object of debug_bundler_dumpMempool; f maps the eleven
\* member names of the json tags of UserOperation to their values.
JUserOp(f) == [t |-> "json.userop", f |-> f]

\* ------------------------------------------------------------------ decoded values

NilPtr == [t |-> "nil"]

Ok(v) == [err |-> NoErr, val |-> v]

Fail(e, v) == [err |-> e, val |-> v]

\* What a slice or struct target holds after json.Unmarshal stopped on an error.
Partial == [t |-> "partly decoded"]

HexBig(n) == [t |-> "hexutil.Big", n |-> n]

BigInt(n) == [t |-> "big.Int", n |-> n]

HexBytes(b) == [t |-> "hexutil.Bytes", b |-> b]

GoString(s) == [t |-> "string", s |-> s]

Struct(shape, id) == [t |-> "struct", shape |-> shape, id |-> id]

\* The zero value of a struct type: var estimate gas.GasEstimates.
ZeroStruct(shape) == Struct(shape, "zero value")

Slice(a) == [t |-> "slice", a |-> a]

\* hexutil.UnmarshalFixedJSON into a common.Hash or common.Address of n bytes:
\* the text is verified before out is written.
DecodeFixed(j, tag, n, old) ==
  IF j.t # "json.string" THEN Fail(ErrDecode, old)
  ELSE IF Len(j.s) = 0 \/ ~Has0xPrefix(j.s) THEN Fail(ErrDecode, old)
  ELSE LET raw == Tail2(j.s) IN
       IF Len(raw) # 2 * n \/ ~AllHex(raw) THEN Fail(ErrDecode, old)
       ELSE Ok([t |-> tag, b |-> Hex2Bytes(raw)])

\* hexutil.Big.UnmarshalJSON
DecodeBig(j, old) ==
  IF j.t # "json.string" THEN Fail(ErrDecode, old)
  ELSE IF Len(j.s) = 0 THEN Ok(HexBig(0))
  ELSE IF ~Has0xPrefix(j.s) THEN Fail(ErrDecode, old)
  ELSE LET raw == Tail2(j.s) IN
       IF Len(raw) = 0 \/ (Len(raw) > 1 /\ raw[1] = "0") \/ Len(raw) > 64 \/ ~AllHex(raw)
       THEN Fail(ErrDecode, old)
       ELSE Ok(HexBig(HexNumber(raw, 0)))

\* hexutil.Bytes.UnmarshalJSON
DecodeBytes(j) ==
  IF j.t # "json.string" THEN Fail(ErrDecode, HexBytes(<<>>))
  ELSE IF Len(j.s) = 0 THEN Ok(HexBytes(<<>>))
  ELSE IF ~Has0xPrefix(j.s) THEN Fail(ErrDecode, HexBytes(<<>>))
  ELSE LET raw == Tail2(j.s) IN
       IF Len(raw) % 2 = 1 \/ ~AllHex(raw) THEN Fail(ErrDecode, HexBytes(<<>>))
       ELSE Ok(HexBytes(Hex2Bytes(raw)))

\* ------------------------------------------------------------------ UserOperation (wire shape)

NumericFields ==
  {"nonce", "callGasLimit", "verificationGasLimit", "preVerificationGas",
   "maxFeePerGas", "maxPriorityFeePerGas"}

ByteFields == {"initCode", "callData", "paymasterAndData", "signature"}

\* A *hexutil.Big member: absent or null leaves the pointer nil.
DecodeBigPtr(j) == IF j.t \in {"json.missing", "json.null"} THEN Ok(NilPtr) ELSE DecodeBig(j, NilPtr)

\* A hexutil.Bytes member: absent leaves the nil slice, null is no string.
DecodeBytesField(j) == IF j.t = "json.missing" THEN Ok(HexBytes(<<>>)) ELSE DecodeBytes(j)

\* A common.Address member.
DecodeAddressField(j) ==
  IF j.t = "json.missing" THEN Ok(ZeroAddress)
  ELSE DecodeFixed(j, "address", AddressLength, ZeroAddress)

DecodeField(name, j) ==
  IF name = "sender" THEN DecodeAddressField(j)
  ELSE IF name \in NumericFields THEN DecodeBigPtr(j)
  ELSE DecodeBytesField(j)

\* type UserOperation struct, filled from the values v of its json tags.
UserOperationStruct(v) ==
  [t |-> "*UserOperation",
   Sender |-> v.sender,
   Nonce |-> v.nonce,
   InitCode |-> v.initCode,
   CallData |-> v.callData,
   CallGasLimit |-> v.callGasLimit,
   VerificationGasLimit |-> v.verificationGasLimit,
   PreVerificationGas |-> v.preVerificationGas,
   MaxFeePerGas |-> v.maxFeePerGas,
   MaxPriorityFeePerGas |-> v.maxPriorityFeePerGas,
   PaymasterAndData |-> v.paymasterAndData,
   Signature |-> v.signature]

\* One element of []*UserOperation decoded by json.Unmarshal along the json tags.
UserOperation(j) ==
  IF j.t = "json.null" THEN Ok(NilPtr)
  ELSE IF j.t # "json.userop" THEN Fail(ErrDecode, NilPtr)
  ELSE LET d == [n \in DOMAIN j.f |-> DecodeField(n, j.f[n])] IN
       IF \E n \in DOMAIN j.f : d[n].err # NoErr THEN Fail(ErrDecode, NilPtr)
       ELSE Ok(UserOperationStruct([n \in DOMAIN j.f |-> d[n].val]))

\* hexutil.Big.ToInt: the pointer conversion (*big.Int)(b); nil stays nil.
ToInt(b) == IF b.t = "nil" THEN NilPtr ELSE BigInt(b.n)

\* hexutil.Bytes assigned to a []byte member.
Bytes(b) == [t |-> "[]byte", b |-> b.b]

\* ToUserOperation with the two fee members crossed.
ToUserOperation_FeesCrossed(uo) ==
  IF uo.t = "nil" THEN NilPtr
  ELSE [t |-> "*userop.UserOperation",
        Sender |-> uo.Sender,
        Nonce |-> ToInt(uo.Nonce),
        InitCode |-> Bytes(uo.InitCode),
        CallData |-> Bytes(uo.CallData),
        CallGasLimit |-> ToInt(uo.CallGasLimit),
        VerificationGasLimit |-> ToInt(uo.VerificationGasLimit),
        PreVerificationGas |-> ToInt(uo.PreVerificationGas),
        MaxFeePerGas |-> ToInt(uo.MaxPriorityFeePerGas),
        MaxPriorityFeePerGas |-> ToInt(uo.MaxFeePerGas),
        PaymasterAndData |-> Bytes(uo.PaymasterAndData),
        Signature |-> Bytes(uo.Signature)]

ToUserOperation(uo) ==
  IF uo.t = "nil" THEN NilPtr
  ELSE [t |-> "*userop.UserOperation",
        Sender |-> uo.Sender,
        Nonce |-> ToInt(uo.Nonce),
        InitCode |-> Bytes(uo.InitCode),
        CallData |-> Bytes(uo.CallData),
        CallGasLimit |-> ToInt(uo.CallGasLimit),
        VerificationGasLimit |-> ToInt(uo.VerificationGasLimit),
        PreVerificationGas |-> ToInt(uo.PreVerificationGas),
        MaxFeePerGas |-> ToInt(uo.MaxFeePerGas),
        MaxPriorityFeePerGas |-> ToInt(uo.MaxPriorityFeePerGas),
        PaymasterAndData |-> Bytes(uo.PaymasterAndData),
        Signature |-> Bytes(uo.Signature)]

\* ------------------------------------------------------------------ the transport call

NilSlice == [t |-> "nil slice"]

\* The result variable each operation declares before the call.
ZeroOf(target) ==
  CASE target = "common.Hash" -> ZeroHash
    [] target = "hexutil.Big" -> HexBig(0)
    [] target = "string" -> GoString(<<>>)
    [] target \in {"[]common.Address", "[]*UserOperation"} -> NilSlice
    [] target = "nil" -> NilPtr
    [] OTHER -> ZeroStruct(target)

DecodeStruct(shape, j) ==
  IF j.t = "json.null" THEN Ok(ZeroStruct(shape))
  ELSE IF j.t = "json.object" /\ j.shape = shape THEN Ok(Struct(shape, j.id))
  ELSE Fail(ErrDecode, Partial)

DecodeAddressElem(j) == DecodeFixed(j, "address", AddressLength, ZeroAddress)

DecodeElem(target, j) ==
  IF target = "[]common.Address" THEN DecodeAddressElem(j) ELSE UserOperation(j)

DecodeSlice(target, j) ==
  IF j.t = "json.null" THEN Ok(NilSlice)
  ELSE IF j.t # "json.array" THEN Fail(ErrDecode, NilSlice)
  ELSE LET d == [i \in 1..Len(j.a) |-> DecodeElem(target, j.a[i])] IN
       IF \E i \in 1..Len(j.a) : d[i].err # NoErr THEN Fail(ErrDecode, Partial)
       ELSE Ok(Slice([i \in 1..Len(j.a) |-> d[i].val]))

\* json.Unmarshal(resp.Result, result) for the result types the client uses.
Unmarshal(target, j) ==
  CASE target = "common.Hash" -> DecodeFixed(j, "hash", HashLength, ZeroHash)
    [] target = "hexutil.Big" -> DecodeBig(j, HexBig(0))
    [] target = "string" ->
         IF j.t = "json.null" THEN Ok(GoString(<<>>))
         ELSE IF j.t = "json.string" THEN Ok(GoString(j.s))
         ELSE Fail(ErrDecode, GoString(<<>>))
    [] target \in {"[]common.Address", "[]*UserOperation"} -> DecodeSlice(target, j)
    [] OTHER -> DecodeStruct(target, j)

\* What the server or the network answers to one request.
NetworkFailure == [t |-> "network failure"]

ServerError == [t |-> "server error"]

Result(j) == [t |-> "result", json |-> j]

\* rpc.Client.CallContext(ctx, &result, method, args...) once the answer is in:
\* the error it returns and what the result variable then holds.
CallContext(target, resp) ==
  CASE resp.t = "network failure" -> Fail(ErrNetwork, ZeroOf(target))
    [] resp.t = "server error" -> Fail(ErrServer, ZeroOf(target))
    [] resp.t = "context done" -> Fail(ErrCtx, ZeroOf(target))
    [] OTHER -> IF target = "nil" THEN Ok(NilPtr) ELSE Unmarshal(target, resp.json)

\* The transport gave up because the call's context was cancelled or timed out.
ContextDone == [t |-> "context done"]

\* ------------------------------------------------------------------ the operations

\* A context.Context: the one caller k passes in, or context.Background().
CtxOf(k) == [t |-> "context", owner |-> k]

Background == [t |-> "context", owner |-> "context.Background()"]

\* One c.c.CallContext(ctx, &result, method, params...): what the transport is given.
Request(ctx, target, method, params) ==
  [ctx |-> ctx, target |-> target, method |-> method, params |-> params]

\* What an operation hands back to its caller.
Return(ret, err) == [ret |-> ret, err |-> err]

\* &x for a local x.
Ptr(v) == [t |-> "pointer", to |-> v]

\* The operation has an error as its only return value.
NoValue == [t |-> "no value"]

\* SendUserOperation calling the transport under context.Background().
SendUserOperationRequest_Background(ctx, op, entryPoint) ==
  Request(Background, "common.Hash", "eth_sendUserOperation", <<op, entryPoint>>)

SendUserOperationRequest(ctx, op, entryPoint) ==
  Request(ctx, "common.Hash", "eth_sendUserOperation", <<op, entryPoint>>)

SendUserOperationResult(out) == Return(out.val, out.err)

EstimateUserOperationGasRequest(ctx, op, entryPoint) ==
  Request(ctx, "gas.GasEstimates", "eth_estimateUserOperationGas", <<op, entryPoint>>)

\* EstimateUserOperationGas returning &estimate next to the error.
EstimateUserOperationGasResult_KeepsEstimate(out) == Return(Ptr(out.val), out.err)

EstimateUserOperationGasResult(out) ==
  IF out.err # NoErr THEN Return(NilPtr, out.err) ELSE Return(Ptr(out.val), NoErr)

\* EstimateUserOperationGasWithOverrides leaving a nil mapping out of the call.
EstimateUserOperationGasWithOverridesRequest_DropsNil(ctx, op, entryPoint, stateOverrides) ==
  IF stateOverrides.m = "nil"
  THEN Request(ctx, "gas.GasEstimates", "eth_estimateUserOperationGas", <<op, entryPoint>>)
  ELSE Request(ctx, "gas.GasEstimates", "eth_estimateUserOperationGas",
               <<op, entryPoint, stateOverrides>>)

EstimateUserOperationGasWithOverridesRequest(ctx, op, entryPoint, stateOverrides) ==
  Request(ctx, "gas.GasEstimates", "eth_estimateUserOperationGas",
          <<op, entryPoint, stateOverrides>>)

EstimateUserOperationGasWithOverridesResult(out) ==
  IF out.err # NoErr THEN Return(NilPtr, out.err) ELSE Return(Ptr(out.val), NoErr)

GetUserOperationReceiptRequest(ctx, userOpHash) ==
  Request(ctx, "filter.UserOperationReceipt", "eth_getUserOperationReceipt", <<userOpHash>>)

GetUserOperationReceiptResult(out) ==
  IF out.err # NoErr THEN Return(NilPtr, out.err) ELSE Return(Ptr(out.val), NoErr)

\* GetUserOperationByHash calling the receipt method.
GetUserOperationByHashRequest_ReceiptMethod(ctx, userOpHash) ==
  Request(ctx, "filter.HashLookupResult", "eth_getUserOperationReceipt", <<userOpHash>>)

GetUserOperationByHashRequest(ctx, userOpHash) ==
  Request(ctx, "filter.HashLookupResult", "eth_getUserOperationByHash", <<userOpHash>>)

GetUserOperationByHashResult(out) ==
  IF out.err # NoErr THEN Return(NilPtr, out.err) ELSE Return(Ptr(out.val), NoErr)

SupportedEntryPointsRequest(ctx) ==
  Request(ctx, "[]common.Address", "eth_supportedEntryPoints", <<>>)

SupportedEntryPointsResult(out) ==
  IF out.err # NoErr THEN Return(NilSlice, out.err) ELSE Return(out.val, NoErr)

ChainIdRequest(ctx) == Request(ctx, "hexutil.Big", "eth_chainId", <<>>)

ChainIdResult(out) ==
  IF out.err # NoErr THEN Return(NilPtr, out.err) ELSE Return(Ptr(ToInt(out.val)), NoErr)

BundlerClearStateRequest(ctx) == Request(ctx, "nil", "debug_bundler_clearState", <<>>)

BundlerClearStateResult(out) == Return(NoValue, out.err)

BundlerDumpMempoolRequest(ctx, entryPoint) ==
  Request(ctx, "[]*UserOperation", "debug_bundler_dumpMempool", <<entryPoint>>)

\* len(ops) and range ops of a nil slice are those of an empty one.
Elements(ops) == IF ops.t = "slice" THEN ops.a ELSE <<>>

BundlerDumpMempoolResult(out) ==
  IF out.err # NoErr THEN Return(NilSlice, out.err)
  ELSE LET ops == Elements(out.val) IN
       Return(Slice([i \in 1..Len(ops) |-> ToUserOperation(ops[i])]), NoErr)

BundlerSendBundleNowRequest(ctx) == Request(ctx, "string", "debug_bundler_sendBundleNow", <<>>)

\* BundlerSendBundleNow without its test for the empty string.
BundlerSendBundleNowResult_NoEmptyTest(out) ==
  IF out.err # NoErr THEN Return(NilPtr, out.err)
  ELSE Return(Ptr(HexToHash(out.val.s)), NoErr)

BundlerSendBundleNowResult(out) ==
  IF out.err # NoErr THEN Return(NilPtr, out.err)
  ELSE IF Len(out.val.s) = 0 THEN Return(NilPtr, NoErr)
  ELSE Return(Ptr(HexToHash(out.val.s)), NoErr)

BundlerSetBundlingModeRequest(ctx, mode) ==
  Request(ctx, "nil", "debug_bundler_setBundlingMode", <<mode>>)

BundlerSetBundlingModeResult(out) == Return(NoValue, out.err)

\* rpc.DialContext(ctx, rawurl), as DialContext calls it.
DialContextRequest(ctx, rawurl) == Request(ctx, "*rpc.Client", "rpc.DialContext", <<rawurl>>)

\* Dial is DialContext(context.Background(), rawurl).
DialRequest(rawurl) == DialContextRequest(Background, rawurl)

\* ------------------------------------------------------------------ sample arguments and answers

Str0x == <<"0", "x">>

UserOps == {[t |-> "*userop.UserOperation", id |-> "op1"]}

EntryPoints == {[t |-> "address", b |-> Rep(187, AddressLength)]}

Hashes == {[t |-> "hash", b |-> Rep(17, HashLength)]}

\* map[common.Address]OverrideAccount: nil, empty, one account.
StateOverrides ==
  {[t |-> "map", m |-> "nil"], [t |-> "map", m |-> "empty"], [t |-> "map", m |-> "one account"]}

Modes == {[t |-> "mode", m |-> "manual"]}

Urls == {[t |-> "url", u |-> "http://localhost:4337"]}

\* *rpc.Client values.
Handles == {[t |-> "*rpc.Client", id |-> "conn1"], [t |-> "*rpc.Client", id |-> "conn2"]}

HashText == Str0x \o Rep("c", 2 * HashLength)

AddressText == Str0x \o Rep("a", 2 * AddressLength)

WireFull ==
  JUserOp([sender |-> JStr(AddressText),
           nonce |-> JStr(Str0x \o <<"5">>),
           initCode |-> JStr(Str0x),
           callData |-> JStr(Str0x \o <<"0", "1", "0", "2">>),
           callGasLimit |-> JStr(Str0x \o <<"1", "0">>),
           verificationGasLimit |-> JStr(Str0x \o <<"2", "0">>),
           preVerificationGas |-> JStr(Str0x \o <<"3", "0">>),
           maxFeePerGas |-> JStr(Str0x \o <<"4", "0">>),
           maxPriorityFeePerGas |-> JStr(Str0x \o <<"8", "9">>),
           paymasterAndData |-> JStr(<<>>),
           signature |-> JStr(Str0x \o <<"F", "f">>)])

\* Numeric members absent or null.
WireSparse ==
  JUserOp([sender |-> JStr(AddressText),
           nonce |-> JMissing,
           initCode |-> JMissing,
           callData |-> JStr(Str0x),
           callGasLimit |-> JNull,
           verificationGasLimit |-> JStr(Str0x \o <<"0">>),
           preVerificationGas |-> JStr(Str0x \o <<"1">>),
           maxFeePerGas |-> JMissing,
           maxPriorityFeePerGas |-> JStr(Str0x \o <<"2">>),
           paymasterAndData |-> JMissing,
           signature |-> JStr(Str0x \o <<"a", "b">>)])

\* A nonce with a leading zero, which hexutil.Big rejects.
WireBad == [WireFull EXCEPT !.f.nonce = JStr(Str0x \o <<"0", "5">>)]

MempoolElements == {WireFull, WireSparse}

RECURSIVE SeqsUpTo(_, _)
SeqsUpTo(S, n) ==
  IF n = 0 THEN {<<>>}
  ELSE LET shorter == SeqsUpTo(S, n - 1) IN
       shorter \cup {Append(q, x) : q \in {r \in shorter : Len(r) = n - 1}, x \in S}

Failures == {NetworkFailure, ServerError}

Mistyped == Result(JObj("mistyped", "x"))

SendUserOperationAnswers ==
  {Result(JStr(HashText)), Result(JNull), Result(JStr(Str0x \o <<"1">>))}

EstimateAnswers == {Result(JObj("gas.GasEstimates", "g1")), Mistyped}

ReceiptAnswers == {Result(JObj("filter.UserOperationReceipt", "r1")), Result(JNull), Mistyped}

ByHashAnswers == {Result(JObj("filter.HashLookupResult", "l1")), Result(JNull), Mistyped}

EntryPointsAnswers ==
  {Result(JArr(<<JStr(AddressText)>>)), Result(JNull), Result(JArr(<<JStr(<<"z", "z">>)>>))}

ChainIdAnswers ==
  {Result(JStr(Str0x \o <<"1">>)), Result(JStr(Str0x \o <<"8", "9">>)), Result(JNull)}

NoResultAnswers == {Result(JNull)}

DumpMempoolAnswers ==
  {Result(JArr(a)) : a \in SeqsUpTo(MempoolElements, MaxMempool)}
  \cup {Result(JNull), Result(JArr(<<JNull, WireFull>>)), Result(JArr(<<WireBad>>))}

SendBundleNowAnswers ==
  {Result(JStr(<<>>)), Result(JNull), Result(JStr(HashText)),
   Result(JStr(<<"z", "z">>)), Result(JStr(Str0x \o <<"1">>)), Mistyped}

\* The answers the server or the network may give to a request of each method.
Responses(method) ==
  Failures \cup
  CASE method = "eth_sendUserOperation" -> SendUserOperationAnswers
    [] method = "eth_estimateUserOperationGas" -> EstimateAnswers
    [] method = "eth_getUserOperationReceipt" -> ReceiptAnswers
    [] method = "eth_getUserOperationByHash" -> ByHashAnswers
    [] method = "eth_supportedEntryPoints" -> EntryPointsAnswers
    [] method = "eth_chainId" -> ChainIdAnswers
    [] method = "debug_bundler_clearState" -> NoResultAnswers
    [] method = "debug_bundler_dumpMempool" -> DumpMempoolAnswers
    [] method = "debug_bundler_sendBundleNow" -> SendBundleNowAnswers
    [] method = "debug_bundler_setBundlingMode" -> NoResultAnswers
    [] OTHER -> {}

\* rpc.DialContext connected and returned this handle.
Connected(h) == [t |-> "connected", c |-> h]

\* rpc.DialContext once it has connected or given up.
RpcDialContext(resp) ==
  CASE resp.t = "connected" -> Ok(resp.c)
    [] resp.t = "context done" -> Fail(ErrCtx, NilPtr)
    [] OTHER -> Fail(ErrDial, NilPtr)

NewClient(c) == [t |-> "*RpcClient", c |-> c]

DialContextResult(out) ==
  IF out.err # NoErr THEN Return(NilPtr, out.err) ELSE Return(NewClient(out.val), NoErr)

\* ------------------------------------------------------------------ state

\* client: the RpcClient under study, NilPtr until a constructor has returned it.
\* call[k]: caller k's call: where it stands, its arguments, the requests it has
\*   handed to the transport, the answer and error the transport call came back
\*   with, and what the operation returned; cancelled says that the context of
\*   the waiting call is done.
\* nInvoked, nSent: operations invoked on the client, requests handed to its transport.
VARIABLES client, call, nInvoked, nSent

vars == <<client, call, nInvoked, nSent>>

OperationNames ==
  {"SendUserOperation", "EstimateUserOperationGas", "EstimateUserOperationGasWithOverrides",
   "GetUserOperationReceipt", "GetUserOperationByHash", "SupportedEntryPoints", "ChainId",
   "BundlerClearState", "BundlerDumpMempool", "BundlerSendBundleNow",
   "BundlerSetBundlingMode"}

Idle ==
  [pc |-> "idle", op |-> "none", args |-> [none |-> TRUE], cancelled |-> FALSE,
   sent |-> <<>>, resp |-> [t |-> "none"], tErr |-> NoErr, ret |-> NoValue, err |-> NoErr]

Init ==
  /\ client = NilPtr
  /\ call = [k \in Callers |-> Idle]
  /\ nInvoked = 0
  /\ nSent = 0

\* Caller k enters an entry point, which hands req to the network and waits.
Begin(k, op, args, req) ==
  /\ call[k].pc = "idle"
  /\ call' = [call EXCEPT ![k] =
                [Idle EXCEPT !.pc = "waiting", !.op = op, !.args = args, !.sent = <<req>>]]

\* Caller k invokes an operation of the constructed client.
Invoke(k, op, args, req) ==
  /\ nInvoked < MaxCalls
  /\ Begin(k, op, args, req)
  /\ nInvoked' = nInvoked + 1
  /\ nSent' = nSent + 1
  /\ UNCHANGED client

\* The answers the waiting call of k may get: those of the server and the
\* network, and the context's own once the context handed over is done.
Answers(k) ==
  LET req == call[k].sent[1] IN
  Responses(req.method) \cup
  (IF call[k].cancelled /\ req.ctx = call[k].args.ctx THEN {ContextDone} ELSE {})

\* The call of k once the transport call has come back with resp and out and
\* the operation returns r.
Finished(k, resp, out, r) ==
  [call EXCEPT ![k] =
     [@ EXCEPT !.pc = "done", !.cancelled = FALSE, !.resp = resp,
               !.tErr = out.err, !.ret = r.ret, !.err = r.err]]

SendUserOperation(k) ==
  /\ client # NilPtr
  /\ \E op \in UserOps, entryPoint \in EntryPoints :
      Invoke(k, "SendUserOperation", [ctx |-> CtxOf(k), op |-> op, entryPoint |-> entryPoint],
             SendUserOperationRequest(CtxOf(k), op, entryPoint))

SendUserOperationReturn(k) ==
  /\ call[k].pc = "waiting"
  /\ call[k].op = "SendUserOperation"
  /\ \E resp \in Answers(k) :
       LET out == CallContext(call[k].sent[1].target, resp) IN
       call' = Finished(k, resp, out, SendUserOperationResult(out))
  /\ UNCHANGED <<client, nInvoked, nSent>>

EstimateUserOperationGas(k) ==
  /\ client # NilPtr
  /\ \E op \in UserOps, entryPoint \in EntryPoints :
      Invoke(k, "EstimateUserOperationGas", [ctx |-> CtxOf(k), op |-> op, entryPoint |-> entryPoint],
             EstimateUserOperationGasRequest(CtxOf(k), op, entryPoint))

EstimateUserOperationGasReturn(k) ==
  /\ call[k].pc = "waiting"
  /\ call[k].op = "EstimateUserOperationGas"
  /\ \E resp \in Answers(k) :
       LET out == CallContext(call[k].sent[1].target, resp) IN
       call' = Finished(k, resp, out, EstimateUserOperationGasResult(out))
  /\ UNCHANGED <<client, nInvoked, nSent>>

EstimateUserOperationGasWithOverrides(k) ==
  /\ client # NilPtr
  /\ \E op \in UserOps, entryPoint \in EntryPoints, stateOverrides \in StateOverrides :
      Invoke(k, "EstimateUserOperationGasWithOverrides", [ctx |-> CtxOf(k), op |-> op, entryPoint |-> entryPoint, stateOverrides |-> stateOverrides],
             EstimateUserOperationGasWithOverridesRequest(CtxOf(k), op, entryPoint, stateOverrides))

EstimateUserOperationGasWithOverridesReturn(k) ==
  /\ call[k].pc = "waiting"
  /\ call[k].op = "EstimateUserOperationGasWithOverrides"
  /\ \E resp \in Answers(k) :
       LET out == CallContext(call[k].sent[1].target, resp) IN
       call' = Finished(k, resp, out, EstimateUserOperationGasWithOverridesResult(out))
  /\ UNCHANGED <<client, nInvoked, nSent>>

GetUserOperationReceipt(k) ==
  /\ client # NilPtr
  /\ \E userOpHash \in Hashes :
      Invoke(k, "GetUserOperationReceipt", [ctx |-> CtxOf(k), userOpHash |-> userOpHash],
             GetUserOperationReceiptRequest(CtxOf(k), userOpHash))

\* GetUserOperationReceipt sending its request again instead of returning.
GetUserOperationReceiptReturn_Retries(k) ==
  /\ call[k].op = "GetUserOperationReceipt"
  /\ call[k].pc = "waiting"
  /\ Len(call[k].sent) = 1
  /\ call' = [call EXCEPT ![k].sent = Append(@, @[1])]
  /\ nSent' = nSent + 1
  /\ UNCHANGED <<client, nInvoked>>

GetUserOperationReceiptReturn(k) ==
  /\ call[k].pc = "waiting"
  /\ call[k].op = "GetUserOperationReceipt"
  /\ \E resp \in Answers(k) :
       LET out == CallContext(call[k].sent[1].target, resp) IN
       call' = Finished(k, resp, out, GetUserOperationReceiptResult(out))
  /\ UNCHANGED <<client, nInvoked, nSent>>

GetUserOperationByHash(k) ==
  /\ client # NilPtr
  /\ \E userOpHash \in Hashes :
      Invoke(k, "GetUserOperationByHash", [ctx |-> CtxOf(k), userOpHash |-> userOpHash],
             GetUserOperationByHashRequest(CtxOf(k), userOpHash))

GetUserOperationByHashReturn(k) ==
  /\ call[k].pc = "waiting"
  /\ call[k].op = "GetUserOperationByHash"
  /\ \E resp \in Answers(k) :
       LET out == CallContext(call[k].sent[1].target, resp) IN
       call' = Finished(k, resp, out, GetUserOperationByHashResult(out))
  /\ UNCHANGED <<client, nInvoked, nSent>>

SupportedEntryPoints(k) ==
  /\ client # NilPtr
  /\ Invoke(k, "SupportedEntryPoints", [ctx |-> CtxOf(k)], SupportedEntryPointsRequest(CtxOf(k)))

SupportedEntryPointsReturn(k) ==
  /\ call[k].pc = "waiting"
  /\ call[k].op = "SupportedEntryPoints"
  /\ \E resp \in Answers(k) :
       LET out == CallContext(call[k].sent[1].target, resp) IN
       call' = Finished(k, resp, out, SupportedEntryPointsResult(out))
  /\ UNCHANGED <<client, nInvoked, nSent>>

ChainId(k) ==
  /\ client # NilPtr
  /\ Invoke(k, "ChainId", [ctx |-> CtxOf(k)], ChainIdRequest(CtxOf(k)))

ChainIdReturn(k) ==
  /\ call[k].pc = "waiting"
  /\ call[k].op = "ChainId"
  /\ \E resp \in Answers(k) :
       LET out == CallContext(call[k].sent[1].target, resp) IN
       call' = Finished(k, resp, out, ChainIdResult(out))
  /\ UNCHANGED <<client, nInvoked, nSent>>

BundlerClearState(k) ==
  /\ client # NilPtr
  /\ Invoke(k, "BundlerClearState", [ctx |-> CtxOf(k)], BundlerClearStateRequest(CtxOf(k)))

BundlerClearStateReturn(k) ==
  /\ call[k].pc = "waiting"
  /\ call[k].op = "BundlerClearState"
  /\ \E resp \in Answers(k) :
       LET out == CallContext(call[k].sent[1].target, resp) IN
       call' = Finished(k, resp, out, BundlerClearStateResult(out))
  /\ UNCHANGED <<client, nInvoked, nSent>>

BundlerDumpMempool(k) ==
  /\ client # NilPtr
  /\ \E entryPoint \in EntryPoints :
      Invoke(k, "BundlerDumpMempool", [ctx |-> CtxOf(k), entryPoint |-> entryPoint],
             BundlerDumpMempoolRequest(CtxOf(k), entryPoint))

BundlerDumpMempoolReturn(k) ==
  /\ call[k].pc = "waiting"
  /\ call[k].op = "BundlerDumpMempool"
  /\ \E resp \in Answers(k) :
       LET out == CallContext(call[k].sent[1].target, resp) IN
       call' = Finished(k, resp, out, BundlerDumpMempoolResult(out))
  /\ UNCHANGED <<client, nInvoked, nSent>>

BundlerSendBundleNow(k) ==
  /\ client # NilPtr
  /\ Invoke(k, "BundlerSendBundleNow", [ctx |-> CtxOf(k)], BundlerSendBundleNowRequest(CtxOf(k)))

\* BundlerSendBundleNow dropping the transport handle when the call failed.
BundlerSendBundleNowReturn_DropsHandle(k) ==
  /\ call[k].pc = "waiting"
  /\ call[k].op = "BundlerSendBundleNow"
  /\ \E resp \in Answers(k) :
       LET out == CallContext(call[k].sent[1].target, resp) IN
       /\ call' = Finished(k, resp, out, BundlerSendBundleNowResult(out))
       /\ client' = IF out.err # NoErr THEN NilPtr ELSE client
  /\ UNCHANGED <<nInvoked, nSent>>

BundlerSendBundleNowReturn(k) ==
  /\ call[k].pc = "waiting"
  /\ call[k].op = "BundlerSendBundleNow"
  /\ \E resp \in Answers(k) :
       LET out == CallContext(call[k].sent[1].target, resp) IN
       call' = Finished(k, resp, out, BundlerSendBundleNowResult(out))
  /\ UNCHANGED <<client, nInvoked, nSent>>

BundlerSetBundlingMode(k) ==
  /\ client # NilPtr
  /\ \E mode \in Modes :
      Invoke(k, "BundlerSetBundlingMode", [ctx |-> CtxOf(k), mode |-> mode],
             BundlerSetBundlingModeRequest(CtxOf(k), mode))

BundlerSetBundlingModeReturn(k) ==
  /\ call[k].pc = "waiting"
  /\ call[k].op = "BundlerSetBundlingMode"
  /\ \E resp \in Answers(k) :
       LET out == CallContext(call[k].sent[1].target, resp) IN
       call' = Finished(k, resp, out, BundlerSetBundlingModeResult(out))
  /\ UNCHANGED <<client, nInvoked, nSent>>

\* ------------------------------------------------------------------ construction

Constructing == \E k \in Callers : call[k].pc = "waiting" /\ call[k].op \in {"Dial", "DialContext"}

Dial(k) ==
  /\ client = NilPtr
  /\ ~Constructing
  /\ \E rawurl \in Urls : Begin(k, "Dial", [rawurl |-> rawurl], DialRequest(rawurl))
  /\ UNCHANGED <<client, nInvoked, nSent>>

DialContext(k) ==
  /\ client = NilPtr
  /\ ~Constructing
  /\ \E rawurl \in Urls :
       Begin(k, "DialContext", [ctx |-> CtxOf(k), rawurl |-> rawurl],
             DialContextRequest(CtxOf(k), rawurl))
  /\ UNCHANGED <<client, nInvoked, nSent>>

\* rpc.DialContext returns to DialContext (called directly or by Dial).
DialContextReturn(k) ==
  /\ call[k].pc = "waiting"
  /\ call[k].op \in {"Dial", "DialContext"}
  /\ LET req == call[k].sent[1]
         done == IF "ctx" \in DOMAIN call[k].args /\ call[k].cancelled /\ req.ctx = call[k].args.ctx
                 THEN {ContextDone} ELSE {}
     IN  \E resp \in {Connected(h) : h \in Handles} \cup {NetworkFailure} \cup done :
           LET out == RpcDialContext(resp)
               r == DialContextResult(out)
           IN  /\ call' = Finished(k, resp, out, r)
               /\ client' = IF r.err = NoErr THEN r.ret ELSE client
  /\ UNCHANGED <<nInvoked, nSent>>

\* NewClient(c) wraps a handle the caller already has; no network is involved.
NewClientCall(k) ==
  /\ client = NilPtr
  /\ ~Constructing
  /\ call[k].pc = "idle"
  /\ \E c \in Handles :
       /\ client' = NewClient(c)
       /\ call' = [call EXCEPT ![k] =
                     [Idle EXCEPT !.pc = "done", !.op = "NewClient", !.args = [c |-> c],
                                  !.ret = NewClient(c)]]
  /\ UNCHANGED <<nInvoked, nSent>>

\* ------------------------------------------------------------------ the callers

\* The caller cancels the context it passed in, or its deadline passes.
Cancel(k) ==
  /\ call[k].pc = "waiting"
  /\ "ctx" \in DOMAIN call[k].args
  /\ ~call[k].cancelled
  /\ call' = [call EXCEPT ![k].cancelled = TRUE]
  /\ UNCHANGED <<client, nInvoked, nSent>>

\* The caller has looked at what came back and is ready for its next call.
Forget(k) ==
  /\ call[k].pc = "done"
  /\ call' = [call EXCEPT ![k] = Idle]
  /\ UNCHANGED <<client, nInvoked, nSent>>

Next ==
  \E k \in Callers :
    \/ SendUserOperation(k)
    \/ SendUserOperationReturn(k)
    \/ EstimateUserOperationGas(k)
    \/ EstimateUserOperationGasReturn(k)
    \/ EstimateUserOperationGasWithOverrides(k)
    \/ EstimateUserOperationGasWithOverridesReturn(k)
    \/ GetUserOperationReceipt(k)
    \/ GetUserOperationReceiptReturn(k)
    \/ GetUserOperationByHash(k)
    \/ GetUserOperationByHashReturn(k)
    \/ SupportedEntryPoints(k)
    \/ SupportedEntryPointsReturn(k)
    \/ ChainId(k)
    \/ ChainIdReturn(k)
    \/ BundlerClearState(k)
    \/ BundlerClearStateReturn(k)
    \/ BundlerDumpMempool(k)
    \/ BundlerDumpMempoolReturn(k)
    \/ BundlerSendBundleNow(k)
    \/ BundlerSendBundleNowReturn(k)
    \/ BundlerSetBundlingMode(k)
    \/ BundlerSetBundlingModeReturn(k)
    \/ Dial(k)
    \/ DialContext(k)
    \/ DialContextReturn(k)
    \/ NewClientCall(k)
    \/ Cancel(k)
    \/ Forget(k)

Spec == Init /\ [][Next]_vars

\* What operation op returns once its transport call has come back with out.
ResultOf(op, out) ==
  CASE op = "SendUserOperation" -> SendUserOperationResult(out)
    [] op = "EstimateUserOperationGas" -> EstimateUserOperationGasResult(out)
    [] op = "EstimateUserOperationGasWithOverrides" ->
         EstimateUserOperationGasWithOverridesResult(out)
    [] op = "GetUserOperationReceipt" -> GetUserOperationReceiptResult(out)
    [] op = "GetUserOperationByHash" -> GetUserOperationByHashResult(out)
    [] op = "SupportedEntryPoints" -> SupportedEntryPointsResult(out)
    [] op = "ChainId" -> ChainIdResult(out)
    [] op = "BundlerClearState" -> BundlerClearStateResult(out)
    [] op = "BundlerDumpMempool" -> BundlerDumpMempoolResult(out)
    [] op = "BundlerSendBundleNow" -> BundlerSendBundleNowResult(out)
    [] op = "BundlerSetBundlingMode" -> BundlerSetBundlingModeResult(out)
    [] OTHER -> DialContextResult(out)

\* The step of Next in which a transport call whose context is done returns
\* the context's error: rpc.Client.CallContext and rpc.DialContext select on
\* ctx.Done().  Nothing makes the server answer.
ReturnOnDone(k) ==
  /\ call[k].pc = "waiting"
  /\ call[k].cancelled
  /\ call[k].sent[1].ctx = call[k].args.ctx
  /\ LET out == IF call[k].op \in OperationNames
                THEN CallContext(call[k].sent[1].target, ContextDone)
                ELSE RpcDialContext(ContextDone)
         r == ResultOf(call[k].op, out)
     IN  call' = Finished(k, ContextDone, out, r)
  /\ UNCHANGED <<client, nInvoked, nSent>>

LiveSpec == Spec /\ \A k \in Callers : WF_vars(ReturnOnDone(k))

\* ------------------------------------------------------------------ claims

Returned(k, op) == call[k].pc = "done" /\ call[k].op = op

InFlight(k) == call[k].pc # "idle" /\ call[k].op \in OperationNames

\* C1: when the server answers GetUserOperationReceipt or GetUserOperationByHash
\* with a null result, the operation returns no error and the absent value.
C1_NullResultIsAbsent ==
  \A k \in Callers :
    (call[k].pc = "done"
       /\ call[k].op \in {"GetUserOperationReceipt", "GetUserOperationByHash"}
       /\ call[k].resp = Result(JNull))
    => (call[k].err = NoErr /\ call[k].ret = NilPtr)

\* C2: when the transport call of BundlerSendBundleNow succeeds, an empty result
\* string gives the nil hash pointer and no error, a non-empty one gives a
\* present hash and no error.
C2_SendBundleNowAbsentOrPresent ==
  \A k \in Callers :
    (Returned(k, "BundlerSendBundleNow")
       /\ call[k].tErr = NoErr
       /\ call[k].resp.t = "result"
       /\ call[k].resp.json.t = "json.string")
    => /\ call[k].err = NoErr
       /\ IF Len(call[k].resp.json.s) = 0
          THEN call[k].ret = NilPtr
          ELSE /\ call[k].ret.t = "pointer"
               /\ call[k].ret.to.t = "hash"
               /\ Len(call[k].ret.to.b) = HashLength
               /\ (call[k].resp.json.s = HashText => call[k].ret.to.b = Rep(204, HashLength))

C2_Witness ==
  \E k, j \in Callers :
    /\ Returned(k, "BundlerSendBundleNow")
    /\ call[k].resp = Result(JStr(<<>>))
    /\ call[k].ret = NilPtr
    /\ call[k].err = NoErr
    /\ Returned(j, "BundlerSendBundleNow")
    /\ call[j].resp = Result(JStr(HashText))
    /\ call[j].ret.t = "pointer"

\* The text is "0x" followed by the hex digits of exactly HashLength bytes.
IsHashText(s) == Has0xPrefix(s) /\ Len(s) = 2 + 2 * HashLength /\ AllHex(Tail2(s))

\* C3: a response that does not match the shape of the operation's result comes
\* back as an error; for BundlerSendBundleNow that includes a non-empty result
\* string that is not the 0x-prefixed hex encoding of a 32-byte hash.
C3_MalformedResponseIsError ==
  \A k \in Callers :
    (call[k].pc = "done" /\ call[k].op \in OperationNames /\ call[k].resp.t = "result")
    => /\ call[k].tErr = ErrDecode => call[k].err # NoErr
       /\ (call[k].op = "BundlerSendBundleNow"
             /\ call[k].resp.json.t = "json.string"
             /\ Len(call[k].resp.json.s) > 0
             /\ ~IsHashText(call[k].resp.json.s))
          => call[k].err # NoErr

\* What each operation returns next to an error.
AbsentReturn(op) ==
  CASE op = "SendUserOperation" -> ZeroHash
    [] op \in {"SupportedEntryPoints", "BundlerDumpMempool"} -> NilSlice
    [] op \in {"BundlerClearState", "BundlerSetBundlingMode"} -> NoValue
    [] OTHER -> NilPtr

\* C4: every operation returns an error exactly when its transport call did,
\* returns that same error, and returns the absent or zero value with it.
C4_ErrorPassThrough ==
  \A k \in Callers :
    (call[k].pc = "done" /\ call[k].op \in OperationNames)
    => /\ (call[k].err # NoErr) <=> (call[k].tErr # NoErr)
       /\ call[k].err = call[k].tErr
       /\ call[k].err # NoErr => call[k].ret = AbsentReturn(call[k].op)

C4_Witness ==
  \E k, j \in Callers :
    /\ Returned(k, "SendUserOperation")
    /\ call[k].tErr = ErrDecode
    /\ call[k].err = ErrDecode
    /\ call[k].ret = ZeroHash
    /\ Returned(j, "EstimateUserOperationGas")
    /\ call[j].tErr = ErrServer
    /\ call[j].ret = NilPtr

\* C5: every invocation of an operation hands exactly one request to the
\* transport, whatever the outcome, and the requests sent are as many as the
\* operations invoked.
C5_OneRequestPerInvocation ==
  /\ nSent = nInvoked
  /\ \A k \in Callers : InFlight(k) => Len(call[k].sent) = 1

C5_Witness ==
  \E k, j \in Callers :
    /\ call[k].pc = "done" /\ call[k].op \in OperationNames /\ call[k].err = ErrNetwork
    /\ call[j].pc = "done" /\ call[j].op \in OperationNames /\ call[j].err = NoErr
    /\ nInvoked = MaxCalls
    /\ nSent = MaxCalls

\* C6: EstimateUserOperationGas sends eth_estimateUserOperationGas with the two
\* parameters (op, entryPoint); EstimateUserOperationGasWithOverrides sends the
\* same method with the caller's override mapping as third parameter, nil and
\* empty mappings included; no other operation sends an override mapping.
C6_OverridesOnlyWhenAsked ==
  \A k \in Callers :
    InFlight(k) =>
      LET req == call[k].sent[1]
          a == call[k].args
      IN  /\ call[k].op = "EstimateUserOperationGas"
             => /\ req.method = "eth_estimateUserOperationGas"
                /\ req.params = <<a.op, a.entryPoint>>
          /\ call[k].op = "EstimateUserOperationGasWithOverrides"
             => /\ req.method = "eth_estimateUserOperationGas"
                /\ req.params = <<a.op, a.entryPoint, a.stateOverrides>>
          /\ call[k].op # "EstimateUserOperationGasWithOverrides"
             => \A i \in 1..Len(req.params) : req.params[i].t # "map"

C6_Witness ==
  \E k, j \in Callers :
    /\ call[k].pc = "waiting"
    /\ call[k].op = "EstimateUserOperationGasWithOverrides"
    /\ call[k].args.stateOverrides.m = "nil"
    /\ Len(call[k].sent[1].params) = 3
    /\ call[j].pc = "waiting"
    /\ call[j].op = "EstimateUserOperationGas"
    /\ Len(call[j].sent[1].params) = 2

\* The operations table of the specification: method and parameters.
TableRow(op, a) ==
  CASE op = "SendUserOperation" -> <<"eth_sendUserOperation", <<a.op, a.entryPoint>> >>
    [] op = "GetUserOperationReceipt" -> <<"eth_getUserOperationReceipt", <<a.userOpHash>> >>
    [] op = "GetUserOperationByHash" -> <<"eth_getUserOperationByHash", <<a.userOpHash>> >>
    [] op = "SupportedEntryPoints" -> <<"eth_supportedEntryPoints", <<>> >>
    [] op = "ChainId" -> <<"eth_chainId", <<>> >>
    [] op = "BundlerClearState" -> <<"debug_bundler_clearState", <<>> >>
    [] op = "BundlerDumpMempool" -> <<"debug_bundler_dumpMempool", <<a.entryPoint>> >>
    [] op = "BundlerSendBundleNow" -> <<"debug_bundler_sendBundleNow", <<>> >>
    [] op = "BundlerSetBundlingMode" -> <<"debug_bundler_setBundlingMode", <<a.mode>> >>

TableOperations ==
  OperationNames \ {"EstimateUserOperationGas", "EstimateUserOperationGasWithOverrides"}

\* C7: each operation sends the method name and the parameter list of its row
\* of the operations table, the caller's arguments in the caller's order.
C7_MethodAndParameters ==
  \A k \in Callers :
    (call[k].pc # "idle" /\ call[k].op \in TableOperations)
    => /\ call[k].sent[1].method = TableRow(call[k].op, call[k].args)[1]
       /\ call[k].sent[1].params = TableRow(call[k].op, call[k].args)[2]

C7_Witness ==
  \E k, j \in Callers :
    /\ call[k].pc = "waiting"
    /\ call[k].op = "GetUserOperationByHash"
    /\ call[k].sent[1].method = "eth_getUserOperationByHash"
    /\ Len(call[k].sent[1].params) = 1
    /\ call[j].pc = "waiting"
    /\ call[j].op = "BundlerSendBundleNow"
    /\ call[j].sent[1].params = <<>>

\* The Go member of each json tag of UserOperation.
GoField ==
  [sender |-> "Sender", nonce |-> "Nonce", initCode |-> "InitCode", callData |-> "CallData",
   callGasLimit |-> "CallGasLimit", verificationGasLimit |-> "VerificationGasLimit",
   preVerificationGas |-> "PreVerificationGas", maxFeePerGas |-> "MaxFeePerGas",
   maxPriorityFeePerGas |-> "MaxPriorityFeePerGas",
   paymasterAndData |-> "PaymasterAndData", signature |-> "Signature"]

\* The integer a member's hex text denotes; no integer for an absent or null member.
DenotedInt(j) ==
  IF j.t # "json.string" THEN NilPtr
  ELSE IF Len(j.s) = 0 THEN BigInt(0)
  ELSE BigInt(HexNumber(Tail2(j.s), 0))

\* The bytes a member's hex text denotes.
DenotedBytes(j) ==
  IF j.t # "json.string" \/ Len(j.s) < 2 THEN <<>> ELSE Hex2Bytes(Tail2(j.s))

WellFormedElements == {JNull, WireFull, WireSparse}

\* C8: for a successful debug_bundler_dumpMempool, the sequence returned has the
\* length and order of the server's; every element has the sender, the byte
\* strings and the six numeric members the server's hex texts denote, each from
\* the member of the same name; a null element and an absent numeric member
\* come back absent and do not fail the call.
C8_DumpMempoolFaithful ==
  \A k \in Callers :
    (Returned(k, "BundlerDumpMempool")
       /\ call[k].resp.t = "result"
       /\ call[k].resp.json.t = "json.array")
    => LET a == call[k].resp.json.a
           u == call[k].ret
       IN  /\ (\A i \in 1..Len(a) : a[i] \in WellFormedElements) => call[k].err = NoErr
           /\ call[k].err = NoErr =>
                /\ u.t = "slice"
                /\ Len(u.a) = Len(a)
                /\ \A i \in 1..Len(a) :
                     IF a[i].t = "json.null" THEN u.a[i] = NilPtr
                     ELSE /\ u.a[i].t = "*userop.UserOperation"
                          /\ u.a[i].Sender.b = DenotedBytes(a[i].f.sender)
                          /\ \A n \in NumericFields :
                               u.a[i][GoField[n]] = DenotedInt(a[i].f[n])
                          /\ \A n \in ByteFields :
                               u.a[i][GoField[n]].b = DenotedBytes(a[i].f[n])

C8_Witness ==
  \E k, j \in Callers :
    /\ Returned(k, "BundlerDumpMempool")
    /\ call[k].resp = Result(JArr(<<WireSparse, WireFull>>))
    /\ call[k].err = NoErr
    /\ call[k].ret.a[1].Nonce = NilPtr
    /\ call[k].ret.a[1].MaxPriorityFeePerGas = BigInt(2)
    /\ call[k].ret.a[2].Nonce = BigInt(5)
    /\ call[k].ret.a[2].MaxFeePerGas = BigInt(64)
    /\ call[k].ret.a[2].MaxPriorityFeePerGas = BigInt(137)
    /\ call[k].ret.a[2].Signature.b = <<255>>
    /\ Returned(j, "BundlerDumpMempool")
    /\ call[j].resp = Result(JArr(<<JNull, WireFull>>))
    /\ call[j].ret.a[1] = NilPtr

\* The request an invocation sent and what it returned are those of every other
\* invocation with the same method, parameters and answer.
SameAnswerSameReturn ==
  \A k, j \in Callers :
    (call[k].pc = "done" /\ call[j].pc = "done"
       /\ call[k].op = call[j].op
       /\ call[k].op \in OperationNames
       /\ call[k].sent[1].params = call[j].sent[1].params
       /\ call[k].resp = call[j].resp)
    => (call[k].ret = call[j].ret /\ call[k].err = call[j].err)

\* C9: the transport handle is fixed at construction and no operation changes
\* it or any other state of the client; a step of one caller's call leaves the
\* other callers' calls as they are, and what a call returns depends on its own
\* arguments and answer only.
C9_StatelessClient ==
  /\ []SameAnswerSameReturn
  /\ [][/\ client # NilPtr => client' = client
        /\ \A k \in Callers :
             call'[k] # call[k] => \A j \in Callers \ {k} : call'[j] = call[j]]_vars

C9_Witness ==
  \E k, j \in Callers :
    /\ k # j
    /\ client # NilPtr
    /\ call[k].pc = "done"
    /\ call[k].op = "BundlerSendBundleNow"
    /\ call[k].err = ErrServer
    /\ call[j].pc = "waiting"
    /\ call[j].op = "ChainId"

TakesContext(k) == call[k].op \in OperationNames \cup {"DialContext"}

====
